---------------------------- MODULE Spec2Model ----------------------------
(***************************************************************************)
(* Model of kaleidoscope::testing::Driver (src/src/Driver.cpp): the cycle  *)
(* scheduler (cycle, cycles, skipTime, cycleInternal), the report handler  *)
(* (processKeyboardReport), the result aggregation (assertions_passed_,    *)
(* checkStatus, ~Driver) and the error stream's abort-on-first-error exit. *)
(*                                                                         *)
(* An assertion object is a number.  Every registration creates a fresh    *)
(* object 1..MaxAssertions, in increasing order; the objects of the lists  *)
(* passed to a scheduling call are the numbers above MaxAssertions and     *)
(* live as long as the call.  The outcome of eval() is chosen freely at    *)
(* every evaluation.  ::loop() is the firmware's scan cycle: while control *)
(* is inside it (pc = "in_loop") it may deliver reports to                 *)
(* processKeyboardReport.  When a call of the test has returned            *)
(* (pc = "returned") its locals and what it reported are still visible;    *)
(* they are dropped when the test goes on (resume).                        *)
(***************************************************************************)
EXTENDS Integers, Sequences, FiniteSets

(* ------------------------------ bounds -------------------------------- *)
\* ticks a run may contain
MaxCycleId == 2
\* assertion objects a run may register
MaxAssertions == 2
\* reports ::loop() may emit in a run
MaxReports == 2
\* length of a non-empty list of assertions passed to a scheduling call
ListLen == 2

\* the values of cycle_duration_ [ms]: unset, and set
Durations == {0, 1}
\* the values of scan_cycles_default_count_
DefaultCounts == {2}
\* delta_t is a double: it is counted in half milliseconds
InDeltaUnits(ms) == 2 * ms
\* the arguments n of cycles and delta_t of skipTime, one negative value each
Counts == (0 - 1)..MaxCycleId
DeltaTs == (0 - 1)..InDeltaUnits(MaxCycleId)
ListLens == {0, ListLen}
NoCount == 0 - 1
\* the ticks asked for, after a call asking for ticks more
Requested(count, ticks) == IF count = NoCount THEN NoCount ELSE count + ticks

VARIABLES
  \* configuration (constructor arguments and public settings)
  cycle_duration_, abort_on_first_error_,
  error_if_report_without_queued_assertions_, scan_cycles_default_count_,
  \* Driver state
  cycle_id_, time_, n_overall_keyboard_reports_, n_keyboard_reports_in_cycle_,
  assertions_passed_,
  queued_keyboard_report_assertions_, permanent_keyboard_report_assertions_,
  queued_cycle_assertions_, permanent_cycle_assertions_,
  \* control: where the single thread is, and the locals of the running call
  \* (internal_list is the list cycleInternal is given, arg_n the n that
  \* cycles was called with)
  pc, op, arg_n, n, i, delta_t, start_cycle, start_time, elapsed_time,
  on_stop_assertion_list, internal_list,
  \* the assertion objects on which setDriver(this) has been called
  driver_set,
  \* observation of the run (no effect on the program): objects registered,
  \* assertions evaluated by the last step, whether an eval() has returned
  \* false, errors reported by the current call, the value checkStatus()
  \* returned, ticks asked for so far in a run of cycle and cycles calls
  \* (NoCount once the run has called skipTime)
  n_assertions, evaluated, any_failed, call_errors, status, req_ticks

config == <<cycle_duration_, abort_on_first_error_,
            error_if_report_without_queued_assertions_,
            scan_cycles_default_count_>>
counters == <<cycle_id_, time_, n_overall_keyboard_reports_,
              n_keyboard_reports_in_cycle_>>
queues == <<queued_keyboard_report_assertions_,
            permanent_keyboard_report_assertions_,
            queued_cycle_assertions_, permanent_cycle_assertions_>>
driverState == <<counters, assertions_passed_, queues>>
frame == <<op, arg_n, n, i, delta_t, start_cycle, start_time, elapsed_time,
           on_stop_assertion_list, internal_list>>
vars == <<config, driverState, pc, frame, driver_set, n_assertions,
          evaluated, any_failed, call_errors, status, req_ticks>>

NoList == << >>

Range(s) == {s[k] : k \in 1..Len(s)}

Occurrences(a, s) == Cardinality({k \in 1..Len(s) : s[k] = a})

\* the lists a caller passes: k on-stop assertions, m cycle assertions
OnStopList(k) == [j \in 1..k |-> MaxAssertions + j]
CycleList(m) == [j \in 1..m |-> MaxAssertions + ListLen + j]

CeilDiv(a, b) == IF a <= 0 THEN 0 ELSE (a + b - 1) \div b

(* ------------------------- assertion queues --------------------------- *)
pushBack(queue, a) == Append(queue, a)
popFront(queue) == [value |-> Head(queue), rest |-> Tail(queue)]
add(queue, a) == Append(queue, a)

(* ------------------------ assertion evaluation ------------------------ *)
\* (a variant of processKeyboardReportAssertion that assigns the outcome to
\* the flag instead of AND-ing it)
processKeyboardReportAssertion_Assign(passed, a, fails) == a \notin fails

\* Driver::processKeyboardReportAssertion: eval(), then
\* assertions_passed_ &= assertion_passed.  fails is the set of assertion
\* objects whose eval() returns false in this step.
processKeyboardReportAssertion(passed, a, fails) == passed /\ (a \notin fails)

RECURSIVE processKeyboardReportAssertions(_, _, _)
processKeyboardReportAssertions(passed, list, fails) ==
  IF list = << >> THEN passed
  ELSE processKeyboardReportAssertions(
         processKeyboardReportAssertion(passed, Head(list), fails),
         Tail(list), fails)

\* Driver::processCycleAssertions: the same policy applied to every element
RECURSIVE processCycleAssertions(_, _, _)
processCycleAssertions(passed, list, fails) ==
  IF list = << >> THEN passed
  ELSE processCycleAssertions(passed /\ (Head(list) \notin fails),
                              Tail(list), fails)

\* the outcomes of the eval() calls of a step that evaluates list: the set of
\* assertions that fail.  Two failures leave the state one failure leaves.
Outcomes(list) == {{}} \cup {{a} : a \in Range(list)}

\* observation of a step that evaluates the sequence list
Observe(list, fails) ==
  /\ evaluated' = list
  /\ any_failed' = (any_failed \/ (Range(list) \cap fails # {}))

(* ----------------------------- ErrorStream ---------------------------- *)
\* (variants of ErrorStreamExits: a destructor that never ends the process,
\* and one that always does)
ErrorStreamExits_Never(abort) == FALSE
ErrorStreamExits_Always(abort) == TRUE

\* ErrorStream::~ErrorStream: does the end of a diagnostic call exit(1)?
ErrorStreamExits(abort) == abort

(* ----------------------------- checkStatus ---------------------------- *)
\* (a variant of checkStatus that does not look at the queue)
checkStatus_NoQueue(queue, passed, abort) ==
  IF passed THEN [ret |-> "true", errors |-> {}]
  ELSE IF abort THEN [ret |-> "exit", errors |-> {"not_passed"}]
       ELSE [ret |-> "false", errors |-> {"not_passed", "errors_occurred"}]

\* (a variant of checkStatus that also counts a cycle assertion left in its
\* queue as a leftover)
checkStatus_CycleQueue(queue, passed, abort) ==
  LET leftover == queue # << >> \/ queued_cycle_assertions_ # << >>
      failed == ~passed
      errs == (IF leftover THEN {"leftover"} ELSE {})
                \cup (IF failed THEN {"not_passed"} ELSE {})
                \cup (IF leftover \/ failed THEN {"errors_occurred"} ELSE {})
  IN IF ~(leftover \/ failed) THEN [ret |-> "true", errors |-> {}]
     ELSE IF abort
          THEN [ret |-> "exit",
                errors |-> IF leftover THEN {"leftover"} ELSE {"not_passed"}]
          ELSE [ret |-> "false", errors |-> errs]

\* Driver::checkStatus.  Every this->error() is an ErrorStream temporary
\* whose destructor calls exit(1) when abort_on_first_error_ is set, so with
\* that flag the first diagnostic ends the process before anything returns.
checkStatus(queue, passed, abort) ==
  LET leftover == queue # << >>
      failed == ~passed
      errs == (IF leftover THEN {"leftover"} ELSE {})
                \cup (IF failed THEN {"not_passed"} ELSE {})
                \cup (IF leftover \/ failed THEN {"errors_occurred"} ELSE {})
  IN IF ~(leftover \/ failed) THEN [ret |-> "true", errors |-> {}]
     ELSE IF abort
          THEN [ret |-> "exit",
                errors |-> IF leftover THEN {"leftover"} ELSE {"not_passed"}]
          ELSE [ret |-> "false", errors |-> errs]

(* ------------------------------- Init --------------------------------- *)
NoFrame ==
  /\ op' = "none"
  /\ arg_n' = 0
  /\ n' = 0
  /\ i' = 0
  /\ delta_t' = 0
  /\ start_cycle' = 0
  /\ start_time' = 0
  /\ elapsed_time' = 0
  /\ on_stop_assertion_list' = NoList
  /\ internal_list' = NoList

Init ==
  /\ cycle_duration_ \in Durations
  /\ abort_on_first_error_ \in BOOLEAN
  /\ error_if_report_without_queued_assertions_ \in BOOLEAN
  /\ scan_cycles_default_count_ \in DefaultCounts
  /\ cycle_id_ = 0
  /\ time_ = 0
  /\ n_overall_keyboard_reports_ = 0
  /\ n_keyboard_reports_in_cycle_ = 0
  /\ assertions_passed_ = TRUE
  /\ queued_keyboard_report_assertions_ = << >>
  /\ permanent_keyboard_report_assertions_ = << >>
  /\ queued_cycle_assertions_ = << >>
  /\ permanent_cycle_assertions_ = << >>
  /\ pc = "idle"
  /\ op = "none"
  /\ arg_n = 0
  /\ n = 0
  /\ i = 0
  /\ delta_t = 0
  /\ start_cycle = 0
  /\ start_time = 0
  /\ elapsed_time = 0
  /\ on_stop_assertion_list = NoList
  /\ internal_list = NoList
  /\ driver_set = {}
  /\ n_assertions = 0
  /\ evaluated = << >>
  /\ any_failed = FALSE
  /\ call_errors = {}
  /\ status = "none"
  /\ req_ticks = 0

(* --------------------------- registration ----------------------------- *)
RegistrationFrame ==
  /\ pc = "idle"
  /\ n_assertions < MaxAssertions
  /\ n_assertions' = n_assertions + 1
  /\ evaluated' = << >>
  /\ UNCHANGED <<config, counters, assertions_passed_, pc, frame, driver_set,
                 any_failed, call_errors, status, req_ticks>>

queueReportAssertion ==
  /\ RegistrationFrame
  /\ queued_keyboard_report_assertions_' =
       pushBack(queued_keyboard_report_assertions_, n_assertions + 1)
  /\ UNCHANGED <<permanent_keyboard_report_assertions_,
                 queued_cycle_assertions_, permanent_cycle_assertions_>>

addPermanentReportAssertion ==
  /\ RegistrationFrame
  /\ permanent_keyboard_report_assertions_' =
       add(permanent_keyboard_report_assertions_, n_assertions + 1)
  /\ UNCHANGED <<queued_keyboard_report_assertions_,
                 queued_cycle_assertions_, permanent_cycle_assertions_>>

queueCycleAssertion ==
  /\ RegistrationFrame
  /\ queued_cycle_assertions_' =
       pushBack(queued_cycle_assertions_, n_assertions + 1)
  /\ UNCHANGED <<queued_keyboard_report_assertions_,
                 permanent_keyboard_report_assertions_,
                 permanent_cycle_assertions_>>

addPermanentCycleAssertion ==
  /\ RegistrationFrame
  /\ permanent_cycle_assertions_' =
       add(permanent_cycle_assertions_, n_assertions + 1)
  /\ UNCHANGED <<queued_keyboard_report_assertions_,
                 permanent_keyboard_report_assertions_,
                 queued_cycle_assertions_>>

(* ---------------------------- cycleInternal --------------------------- *)
\* (a variant of NextCycleId that counts a tick twice)
NextCycleId_Twice(c) == c + 2

\* ++cycle_id_
NextCycleId(c) == c + 1

\* (a variant of ReportsInCycleAtStart that keeps the count of the last tick)
ReportsInCycleAtStart_Kept(c) == c

\* n_keyboard_reports_in_cycle_ = 0
ReportsInCycleAtStart(c) == 0

\* the binding loop of cycleInternal, under the condition the source has
BindInternal(list, bound) ==
  IF list = << >> THEN bound \cup Range(list) ELSE bound

\* cycleInternal from its entry to the call of ::loop()
cycleInternalEnter(list, bound) ==
  /\ cycle_id_' = NextCycleId(cycle_id_)
  /\ n_keyboard_reports_in_cycle_' =
       ReportsInCycleAtStart(n_keyboard_reports_in_cycle_)
  /\ driver_set' = BindInternal(list, bound)
  /\ internal_list' = list
  /\ pc' = "in_loop"
  /\ evaluated' = << >>
  /\ UNCHANGED <<config, time_, n_overall_keyboard_reports_,
                 assertions_passed_, queues, n_assertions, any_failed,
                 status>>

\* (a variant of NextTime that assigns the duration instead of adding it)
NextTime_Assign(t, d) == d

\* time_ += cycle_duration_
NextTime(t, d) == t + d

\* the lists cycleInternal evaluates once ::loop() has returned, in order
CycleEndEvaluated(list, queued, permanent) == list \o queued \o permanent

\* (a variant of QueuedCycleAfterTick that leaves the queue as it is)
QueuedCycleAfterTick_Kept(queue) == queue

\* the queue of cycle assertions once cycleInternal has processed it:
\* queued_cycle_assertions_.clear(), skipped only when the queue is empty
QueuedCycleAfterTick(queue) == IF queue # << >> THEN << >> ELSE queue

\* cycleInternal after ::loop() has returned, and the return into the caller
\* up to its next loop test
LoopReturn ==
  /\ pc = "in_loop"
  /\ LET list == CycleEndEvaluated(internal_list, queued_cycle_assertions_,
                                   permanent_cycle_assertions_)
     IN \E fails \in Outcomes(list) :
          /\ time_' = NextTime(time_, cycle_duration_)
          /\ assertions_passed_' =
               processCycleAssertions(assertions_passed_, list, fails)
          /\ queued_cycle_assertions_' =
               QueuedCycleAfterTick(queued_cycle_assertions_)
          /\ Observe(list, fails)
  /\ CASE op = "cycle" ->
            /\ pc' = "returned"
            /\ UNCHANGED <<i, elapsed_time>>
       [] op = "cycles" ->
            /\ i' = i + 1
            /\ pc' = "cycles_loop"
            /\ UNCHANGED elapsed_time
       [] op = "skipTime" ->
            /\ elapsed_time' = time_' - start_time
            /\ pc' = "skip_loop"
            /\ UNCHANGED i
  /\ UNCHANGED <<config, cycle_id_, n_overall_keyboard_reports_,
                 n_keyboard_reports_in_cycle_,
                 queued_keyboard_report_assertions_,
                 permanent_keyboard_report_assertions_,
                 permanent_cycle_assertions_, op, arg_n, n, delta_t,
                 start_cycle,
                 start_time, on_stop_assertion_list, internal_list,
                 driver_set, n_assertions, call_errors, status, req_ticks>>

(* ------------------------ processKeyboardReport ----------------------- *)
\* (a variant of QueuedToProcess that evaluates the front and leaves it queued)
QueuedToProcess_Peek(queue) ==
  IF queue # << >>
  THEN [evaluated |-> <<Head(queue)>>, rest |-> queue]
  ELSE [evaluated |-> << >>, rest |-> queue]

\* the queued report assertion a report consumes, and the queue it leaves
QueuedToProcess(queue) ==
  IF queue # << >>
  THEN [evaluated |-> <<popFront(queue).value>>, rest |-> popFront(queue).rest]
  ELSE [evaluated |-> << >>, rest |-> queue]

\* (a variant of PermanentToProcess that stops after the first assertion)
PermanentToProcess_First(permanent) ==
  IF permanent = << >> THEN << >> ELSE <<Head(permanent)>>

\* the permanent report assertions a report is checked against
PermanentToProcess(permanent) == permanent

\* (a variant of ReportWithoutQueued that looks at the size the queue has
\* once the report has taken its front)
ReportWithoutQueued_AfterPop(n_assertions_queued, error_if) ==
  (n_assertions_queued <= 1) /\ error_if

\* the condition of the "report without assertions being queued" error
ReportWithoutQueued(n_assertions_queued, error_if) ==
  (n_assertions_queued = 0) /\ error_if

\* ::loop() delivers one report: Driver::processKeyboardReport
processKeyboardReport ==
  /\ pc = "in_loop"
  /\ n_overall_keyboard_reports_ < MaxReports
  /\ LET n_assertions_queued == Len(queued_keyboard_report_assertions_)
         queued == QueuedToProcess(queued_keyboard_report_assertions_)
         list == queued.evaluated \o
             PermanentToProcess(permanent_keyboard_report_assertions_)
     IN /\ n_overall_keyboard_reports_' = n_overall_keyboard_reports_ + 1
        /\ n_keyboard_reports_in_cycle_' = n_keyboard_reports_in_cycle_ + 1
        /\ queued_keyboard_report_assertions_' = queued.rest
        /\ \E fails \in Outcomes(list) :
             /\ assertions_passed_' =
                  processKeyboardReportAssertions(assertions_passed_,
                                                  list, fails)
             /\ Observe(list, fails)
        /\ IF ReportWithoutQueued(n_assertions_queued,
                                  error_if_report_without_queued_assertions_)
           THEN /\ call_errors' = call_errors \cup {"report_without_queued"}
                /\ pc' = IF ErrorStreamExits(abort_on_first_error_)
                         THEN "exited" ELSE pc
           ELSE UNCHANGED <<call_errors, pc>>
  /\ UNCHANGED <<config, cycle_id_, time_,
                 permanent_keyboard_report_assertions_,
                 queued_cycle_assertions_, permanent_cycle_assertions_,
                 frame, driver_set, n_assertions, status, req_ticks>>

(* -------------------------------- cycle ------------------------------- *)
\* Driver::cycle(on_stop_assertion_list), up to the call of ::loop(); the
\* list is handed to cycleInternal, which evaluates it after the tick
cycle ==
  /\ pc = "idle"
  /\ cycle_id_ < MaxCycleId
  /\ \E k \in ListLens : cycleInternalEnter(OnStopList(k), driver_set)
  /\ op' = "cycle"
  /\ start_cycle' = cycle_id_
  /\ req_ticks' = Requested(req_ticks, 1)
  /\ UNCHANGED <<arg_n, n, i, delta_t, start_time, elapsed_time,
                 on_stop_assertion_list, call_errors>>

(* ------------------------------- cycles ------------------------------- *)
\* if(n == 0) n = scan_cycles_default_count_
CyclesCount(nn, default) == IF nn = 0 THEN default ELSE nn

\* (variants of CyclesContinue: a loop that ends at equality only, and a
\* loop that runs one pass more)
CyclesContinue_NotEqual(ii, nn) == ii # nn
CyclesContinue_OneMore(ii, nn) == ii <= nn

\* the test of for(int i = 0; i < n; ++i)
CyclesContinue(ii, nn) == ii < nn

\* the ticks a loop over nn passes runs
Ticks(nn) == IF nn > 0 THEN nn ELSE 0

\* Driver::cycles(n, on_stop_assertion_list, cycle_assertion_list) up to the
\* first test of its loop.  A call is admitted when its ticks fit into the
\* run.
cycles ==
  /\ pc = "idle"
  /\ \E nn \in Counts, k \in ListLens, m \in ListLens :
       /\ cycle_id_ + Ticks(CyclesCount(nn, scan_cycles_default_count_))
            <= MaxCycleId
       /\ arg_n' = nn
       /\ n' = CyclesCount(nn, scan_cycles_default_count_)
       /\ on_stop_assertion_list' = OnStopList(k)
       /\ internal_list' = CycleList(m)
       /\ driver_set' = driver_set \cup Range(OnStopList(k))
       /\ req_ticks' = Requested(req_ticks, IF nn = 0 THEN scan_cycles_default_count_
                                              ELSE Ticks(nn))
  /\ op' = "cycles"
  /\ i' = 0
  /\ pc' = "cycles_loop"
  /\ start_cycle' = cycle_id_
  /\ evaluated' = << >>
  /\ UNCHANGED <<config, driverState, delta_t, start_time, elapsed_time,
                 n_assertions, any_failed, call_errors, status>>

\* one pass of the loop of cycles, up to the call of ::loop()
cyclesIterate ==
  /\ pc = "cycles_loop"
  /\ CyclesContinue(i, n)
  /\ cycle_id_ < MaxCycleId
  /\ cycleInternalEnter(internal_list, driver_set)
  /\ UNCHANGED <<op, arg_n, n, i, delta_t, start_cycle, start_time, elapsed_time,
                 on_stop_assertion_list, call_errors, req_ticks>>

\* the on-stop assertions of cycles and skipTime, evaluated after the loop
processOnStop ==
  /\ \E fails \in Outcomes(on_stop_assertion_list) :
       /\ assertions_passed_' =
            processCycleAssertions(assertions_passed_,
                                   on_stop_assertion_list, fails)
       /\ Observe(on_stop_assertion_list, fails)
  /\ pc' = "returned"
  /\ UNCHANGED <<config, counters, queues, frame, driver_set, n_assertions,
                 call_errors, status, req_ticks>>

\* the loop of cycles has ended
cyclesStop ==
  /\ pc = "cycles_loop"
  /\ ~CyclesContinue(i, n)
  /\ processOnStop

(* ------------------------------ skipTime ------------------------------ *)
\* Driver::checkCycleDurationSet: is the error reported?
checkCycleDurationSet(duration) == duration = 0

\* (a variant of SkipContinue that tests after the first tick only, as a
\* do-while loop would)
SkipContinue_DoWhile(elapsed, delta) ==
  elapsed = 0 \/ InDeltaUnits(elapsed) < delta

\* (a variant of SkipContinue that goes on at equality)
SkipContinue_OrEqual(elapsed, delta) == InDeltaUnits(elapsed) <= delta

\* the test of while(elapsed_time < delta_t)
SkipContinue(elapsed, delta) == InDeltaUnits(elapsed) < delta

\* Driver::skipTime(delta_t, on_stop_assertion_list) up to the first test of
\* its loop.  A call whose duration is positive is admitted when the ticks it
\* needs fit into the run.
skipTime ==
  /\ pc = "idle"
  /\ \E dt \in DeltaTs, k \in ListLens :
       /\ cycle_duration_ > 0 =>
            cycle_id_ + CeilDiv(dt, InDeltaUnits(cycle_duration_))
              <= MaxCycleId
       /\ call_errors' = IF checkCycleDurationSet(cycle_duration_)
                         THEN {"cycle_duration"} ELSE {}
       /\ IF checkCycleDurationSet(cycle_duration_)
             /\ ErrorStreamExits(abort_on_first_error_)
          THEN /\ pc' = "exited"
               /\ UNCHANGED <<delta_t, start_cycle, start_time, elapsed_time,
                              on_stop_assertion_list, driver_set>>
          ELSE /\ pc' = "skip_loop"
               /\ delta_t' = dt
               /\ start_cycle' = cycle_id_
               /\ start_time' = time_
               /\ elapsed_time' = 0
               /\ on_stop_assertion_list' = OnStopList(k)
               /\ driver_set' = driver_set \cup Range(OnStopList(k))
  /\ op' = "skipTime"
  /\ evaluated' = << >>
  /\ req_ticks' = NoCount
  /\ UNCHANGED <<config, driverState, arg_n, n, i, internal_list, n_assertions,
                 any_failed, status>>

\* one pass of the loop of skipTime, up to the call of ::loop()
skipTimeIterate ==
  /\ pc = "skip_loop"
  /\ SkipContinue(elapsed_time, delta_t)
  /\ cycle_id_ < MaxCycleId
  /\ cycleInternalEnter(NoList, driver_set)
  /\ UNCHANGED <<op, arg_n, n, i, delta_t, start_cycle, start_time, elapsed_time,
                 on_stop_assertion_list, call_errors, req_ticks>>

\* the loop of skipTime has ended
skipTimeStop ==
  /\ pc = "skip_loop"
  /\ ~SkipContinue(elapsed_time, delta_t)
  /\ processOnStop

(* ----------------------- checkStatus and ~Driver ---------------------- *)
\* a call of checkStatus() by the test
callCheckStatus ==
  /\ pc = "idle"
  /\ LET r == checkStatus(queued_keyboard_report_assertions_,
                          assertions_passed_,
                          ErrorStreamExits(abort_on_first_error_))
     IN /\ call_errors' = r.errors
        /\ IF r.ret = "exit"
           THEN pc' = "exited" /\ UNCHANGED status
           ELSE pc' = "returned" /\ status' = r.ret
  /\ op' = "checkStatus"
  /\ evaluated' = << >>
  /\ UNCHANGED <<config, driverState, arg_n, n, i, delta_t, start_cycle, start_time,
                 elapsed_time, on_stop_assertion_list, internal_list,
                 driver_set, n_assertions, any_failed, req_ticks>>

\* Driver::~Driver: exit(1) unless checkStatus() returns true
destroy ==
  /\ pc = "idle"
  /\ LET r == checkStatus(queued_keyboard_report_assertions_,
                          assertions_passed_,
                          ErrorStreamExits(abort_on_first_error_))
     IN /\ call_errors' = IF r.ret = "false"
                          THEN r.errors \cup {"terminating"} ELSE r.errors
        /\ pc' = IF r.ret = "true" THEN "destroyed" ELSE "exited"
        /\ status' = IF r.ret = "exit" THEN status ELSE r.ret
  /\ op' = "destroy"
  /\ evaluated' = << >>
  /\ UNCHANGED <<config, driverState, arg_n, n, i, delta_t, start_cycle, start_time,
                 elapsed_time, on_stop_assertion_list, internal_list,
                 driver_set, n_assertions, any_failed, req_ticks>>

\* the test goes on after a call has returned: the call's locals and the
\* lists it was given go out of scope
resume ==
  /\ pc = "returned"
  /\ pc' = "idle"
  /\ NoFrame
  /\ driver_set' = {}
  /\ evaluated' = << >>
  /\ call_errors' = {}
  /\ status' = "none"
  /\ UNCHANGED <<config, driverState, n_assertions, any_failed, req_ticks>>

(* -------------------------------- Next -------------------------------- *)
Next ==
  \/ queueReportAssertion
  \/ addPermanentReportAssertion
  \/ queueCycleAssertion
  \/ addPermanentCycleAssertion
  \/ cycle
  \/ cycles
  \/ cyclesIterate
  \/ cyclesStop
  \/ skipTime
  \/ skipTimeIterate
  \/ skipTimeStop
  \/ processKeyboardReport
  \/ LoopReturn
  \/ callCheckStatus
  \/ destroy
  \/ resume

Spec == Init /\ [][Next]_vars

TypeOK ==
  /\ pc \in {"idle", "in_loop", "cycles_loop", "skip_loop", "returned",
             "exited", "destroyed"}
  /\ cycle_id_ \in 0..MaxCycleId
  /\ n_assertions \in 0..MaxAssertions
  /\ assertions_passed_ \in BOOLEAN


(* ============================== claims ================================ *)
\* a call of the test has come back, or none is running
AtRest == pc \in {"idle", "returned"}

\* a report is being delivered by this step
ReportStep == n_overall_keyboard_reports_' = n_overall_keyboard_reports_ + 1

\* ::loop() returns in this step and cycleInternal runs to its end
TickEndStep == pc = "in_loop" /\ pc' \in {"returned", "cycles_loop", "skip_loop"}

\* C1: in a run made of cycle and cycles calls only, whenever no call is
\* running the cycle id equals the number of ticks asked for so far (the
\* default count for cycles(0)), and the aggregate pass flag is still true as
\* long as no eval() has returned false (so, in particular, when no
\* assertion was registered or passed in).
C1_CycleIdCountsTicks ==
  (AtRest /\ req_ticks # NoCount) =>
     /\ cycle_id_ = req_ticks
     /\ (~any_failed => assertions_passed_)

\* C1 witness: two ticks asked for in two calls, no assertion anywhere
C1_Witness ==
  /\ pc = "returned" /\ op = "cycle" /\ start_cycle = 1
  /\ req_ticks = 2 /\ cycle_id_ = 2
  /\ n_assertions = 0 /\ internal_list = << >> /\ ~any_failed
  /\ assertions_passed_

\* C2: a report that finds the queue of report assertions non-empty removes
\* exactly its front, which is the earliest pushed of the queue (objects are
\* numbered in push order), evaluates it first and exactly once, evaluates
\* none of the others queued, and leaves the queue one shorter.
C2_ReportConsumesFront ==
  [][(ReportStep /\ queued_keyboard_report_assertions_ # << >>) =>
       LET queue == queued_keyboard_report_assertions_
       IN /\ queued_keyboard_report_assertions_' = Tail(queue)
          /\ Len(queued_keyboard_report_assertions_') = Len(queue) - 1
          /\ evaluated' # << >>
          /\ evaluated'[1] = Head(queue)
          /\ Occurrences(Head(queue), evaluated') = 1
          /\ \A a \in Range(Tail(queue)) :
               a > Head(queue) /\ a \notin Range(evaluated')]_vars

\* C2 witness: the second of two reports has consumed the second of two
\* queued assertions
C2_Witness ==
  /\ pc = "in_loop"
  /\ n_overall_keyboard_reports_ = 2
  /\ n_assertions = 2
  /\ evaluated = <<2>>
  /\ queued_keyboard_report_assertions_ = << >>

\* C3: no step removes a permanent assertion; every report evaluates every
\* permanent report assertion exactly once and every end of a tick evaluates
\* every permanent cycle assertion exactly once; no other step evaluates
\* them.
C3_PermanentEveryEvent ==
  [][/\ Range(permanent_keyboard_report_assertions_)
          \subseteq Range(permanent_keyboard_report_assertions_')
     /\ Range(permanent_cycle_assertions_)
          \subseteq Range(permanent_cycle_assertions_')
     /\ \A a \in Range(permanent_keyboard_report_assertions_) :
          Occurrences(a, evaluated') = IF ReportStep THEN 1 ELSE 0
     /\ \A a \in Range(permanent_cycle_assertions_) :
          Occurrences(a, evaluated') = IF TickEndStep THEN 1 ELSE 0]_vars

\* C3 witness: the second of two ticks that emit one report each; the
\* permanent report assertions registered before them are evaluated again
C3_Witness ==
  /\ pc = "in_loop"
  /\ cycle_id_ = 2
  /\ n_overall_keyboard_reports_ = 2
  /\ n_keyboard_reports_in_cycle_ = 1
  /\ permanent_keyboard_report_assertions_ = <<1, 2>>
  /\ evaluated = <<1, 2>>

\* what the claims call a failed run
RunFailed == queued_keyboard_report_assertions_ # << >> \/ any_failed

\* C4 as claimed: checkStatus() changes no Driver state and returns false
\* if and only if the queue of report assertions is non-empty or an eval()
\* has returned false.
C4_AsClaimed ==
  [][(pc = "idle" /\ op' = "checkStatus") =>
       /\ UNCHANGED driverState
       /\ (pc' = "returned" /\ status' = "false") <=> RunFailed]_vars

\* C4 as amended: checkStatus() changes no Driver state; it returns true if
\* and only if the queue of report assertions is empty and no eval() has
\* returned false; otherwise it returns false when abort-on-first-error is
\* not set, and with abort-on-first-error it does not return: its first
\* diagnostic ends the process.
C4_CheckStatus ==
  [][(pc = "idle" /\ op' = "checkStatus") =>
       /\ UNCHANGED driverState
       /\ (pc' = "returned" /\ status' = "true") <=> ~RunFailed
       /\ (pc' = "returned" /\ status' = "false")
            <=> (RunFailed /\ ~abort_on_first_error_)
       /\ (pc' = "exited") <=> (RunFailed /\ abort_on_first_error_)]_vars

\* C4 witness: an assertion is left in the queue, nothing has failed, and
\* checkStatus() has returned false
C4_Witness ==
  /\ pc = "returned" /\ op = "checkStatus" /\ status = "false"
  /\ queued_keyboard_report_assertions_ # << >>
  /\ assertions_passed_ /\ ~any_failed
  /\ cycle_id_ > 0

\* C5: when skipTime(delta_t) returns, with a cycle duration d > 0 and
\* delta_t > 0, it has run k ticks where k is the least number with
\* k * d >= delta_t; the elapsed time is k * d, at least delta_t and less
\* than delta_t + d, and equals delta_t only if d divides delta_t.
C5_SkipTimeTicks ==
  (pc = "returned" /\ op = "skipTime" /\ cycle_duration_ > 0 /\ delta_t > 0) =>
     LET k == cycle_id_ - start_cycle
         d == cycle_duration_
         elapsed == time_ - start_time
     IN /\ InDeltaUnits(k * d) >= delta_t
        /\ InDeltaUnits((k - 1) * d) < delta_t
        /\ elapsed = k * d
        /\ elapsed_time = elapsed
        /\ InDeltaUnits(elapsed) >= delta_t
        /\ InDeltaUnits(elapsed) < delta_t + InDeltaUnits(d)
        /\ (InDeltaUnits(elapsed) = delta_t) <=> (delta_t % InDeltaUnits(d) = 0)

\* C5 witness: skipTime(1.5) with a cycle duration of 1 has run 2 ticks
C5_Witness ==
  /\ pc = "returned" /\ op = "skipTime"
  /\ cycle_duration_ = 1 /\ delta_t = 3
  /\ cycle_id_ - start_cycle = 2 /\ elapsed_time = 2

\* C6 as claimed: with a cycle duration of 0 a call of skipTime ends and
\* does not go on ticking without bound.  In the form a finite run refutes:
\* whenever a tick of such a call comes back to a loop test that lets the
\* loop go on, the tick has brought elapsed_time nearer to delta_t (if it
\* has not, the test stays true after every later tick as well).
C6_SkipTimeEnds ==
  [][(op = "skipTime" /\ cycle_duration_ = 0 /\ TickEndStep
        /\ SkipContinue(elapsed_time', delta_t'))
       => elapsed_time' > elapsed_time]_vars

\* C7 as claimed: without abort-on-first-error, once the missing cycle
\* duration has been reported the aggregate pass flag is false and
\* checkStatus() returns false.
C7_ConfigurationErrorAccumulated ==
  (~abort_on_first_error_ /\ "cycle_duration" \in call_errors) =>
     /\ ~assertions_passed_
     /\ checkStatus(queued_keyboard_report_assertions_, assertions_passed_,
                    abort_on_first_error_).ret = "false"

\* C8 as claimed: a call cycles(n, ...) with n < 0 reports an error; it does
\* not come back as a call that reported none.
C8_AsClaimed ==
  (op = "cycles" /\ arg_n < 0 /\ pc = "returned") => call_errors # {}

\* C8 as amended: a call cycles(n, ...) with n < 0 does not fail: it reports
\* no error, runs no tick (its loop is never entered) and the process goes
\* on.
C8_NegativeCountNoTick ==
  (op = "cycles" /\ arg_n < 0) =>
     /\ pc \in {"cycles_loop", "returned"}
     /\ i = 0
     /\ cycle_id_ = start_cycle
     /\ call_errors = {}

\* C8 witness: cycles(-1, ...) has returned, after earlier ticks
C8_Witness ==
  /\ op = "cycles" /\ arg_n < 0 /\ pc = "returned"
  /\ cycle_id_ > 0 /\ cycle_id_ = start_cycle
  /\ call_errors = {}

\* the ticks the claims expect of cycles(arg_n, ...), for arg_n >= 0
ExpectedTicks ==
  IF arg_n = 0 THEN scan_cycles_default_count_ ELSE arg_n

\* C9: during a call cycles(n, stop, perCycle) with n >= 0, every end of a
\* tick evaluates every assertion of perCycle exactly once and none of stop;
\* the step that ends the call comes after n ticks (after the default count
\* of ticks when n = 0) and evaluates every assertion of stop exactly once;
\* no other step of the call evaluates an assertion of either list.
C9_CyclesTicksAndAssertions ==
  [][(op' = "cycles" /\ arg_n' >= 0) =>
       /\ TickEndStep =>
            /\ \A a \in Range(internal_list') :
                 Occurrences(a, evaluated') = 1
            /\ \A a \in Range(on_stop_assertion_list') :
                 a \notin Range(evaluated')
            /\ i' = i + 1
            /\ i' = cycle_id_' - start_cycle'
       /\ (pc = "cycles_loop" /\ pc' = "returned") =>
            /\ cycle_id_' - start_cycle' = ExpectedTicks'
            /\ i' = ExpectedTicks'
            /\ evaluated' = on_stop_assertion_list'
            /\ \A a \in Range(on_stop_assertion_list') :
                 Occurrences(a, evaluated') = 1
       /\ (~TickEndStep /\ ~(pc = "cycles_loop" /\ pc' = "returned")) =>
            \A a \in Range(internal_list') \cup Range(on_stop_assertion_list') :
              a \notin Range(evaluated')]_vars

\* C9 witness: cycles(0, stop, perCycle) has returned after the default
\* count of ticks, with both lists non-empty
C9_Witness ==
  /\ pc = "returned" /\ op = "cycles" /\ arg_n = 0
  /\ cycle_id_ - start_cycle = scan_cycles_default_count_
  /\ on_stop_assertion_list # << >> /\ internal_list # << >>
  /\ evaluated = on_stop_assertion_list

\* C10 as claimed: while ::loop() runs, every assertion of the list given
\* to cycleInternal has been bound to the Driver.
C10_BoundBeforeTick ==
  pc = "in_loop" => Range(internal_list) \subseteq driver_set

\* C11 as claimed: without abort-on-first-error, once a report has arrived
\* in strict mode with no report assertion queued and the error has been
\* reported, the aggregate pass flag is false and checkStatus() returns
\* false.
C11_StrictReportRecorded ==
  (~abort_on_first_error_ /\ "report_without_queued" \in call_errors) =>
     /\ ~assertions_passed_
     /\ checkStatus(queued_keyboard_report_assertions_, assertions_passed_,
                    ErrorStreamExits(abort_on_first_error_)).ret = "false"

\* the process is inside ::loop(), or has ended there
InsideLoop ==
  \/ pc = "in_loop"
  \/ pc = "exited" /\ "report_without_queued" \in call_errors

\* the ticks that have run to their end
CompletedTicks == IF InsideLoop THEN cycle_id_ - 1 ELSE cycle_id_

\* C12: the time starts at 0 and grows by the cycle duration once per tick:
\* in every state it equals the number of ticks run to their end times the
\* cycle duration, however many reports the ticks have sent (a tick whose
\* ::loop() is still running, or in which the process has ended, is not yet
\* counted).
C12_TimeIsTicksTimesDuration ==
  time_ = CompletedTicks * cycle_duration_

\* C12 witness: two ticks with a cycle duration of 1 that sent two reports
C12_Witness ==
  /\ AtRest /\ cycle_duration_ = 1
  /\ cycle_id_ = 2 /\ time_ = 2
  /\ n_overall_keyboard_reports_ = 2

\* C13: with abort-on-first-error, a step that reports an error ends the
\* process with exactly that one diagnostic reported; once the process has
\* ended no step follows: the cycle id does not grow, no assertion is
\* evaluated and no further error is reported.
C13_AbortEndsProcess ==
  [][/\ (abort_on_first_error_ /\ call_errors' # {}) =>
          /\ pc' = "exited"
          /\ Cardinality(call_errors') = 1
     /\ (pc = "exited") =>
          /\ pc' = "exited"
          /\ cycle_id_' = cycle_id_
          /\ evaluated' = evaluated
          /\ call_errors' = call_errors]_vars

\* C13 witness: the first of the two ticks of a cycles call has sent a
\* report in strict mode with nothing queued, and the process has ended
\* inside that tick
C13_Witness ==
  /\ abort_on_first_error_ /\ pc = "exited"
  /\ op = "cycles" /\ n = 2 /\ i = 0 /\ cycle_id_ = 1
  /\ call_errors = {"report_without_queued"}

\* C14: without abort-on-first-error the process ends only in ~Driver: it
\* ends with exit(1) only there and only when checkStatus() is false, and it
\* ends normally there when checkStatus() is true; no failed assertion and
\* no reported error ends it anywhere else.
C14_NoAbortRunsToTeardown ==
  ~abort_on_first_error_ =>
     LET r == checkStatus(queued_keyboard_report_assertions_,
                          assertions_passed_,
                          ErrorStreamExits(abort_on_first_error_))
     IN /\ (pc = "exited") => (op = "destroy" /\ r.ret = "false")
        /\ (pc = "destroyed") => (op = "destroy" /\ r.ret = "true")

\* C14 witness: the first tick of a cycles call has reported the strict-mode
\* error and an assertion has failed; the second tick of the call is running
C14_Witness ==
  /\ ~abort_on_first_error_
  /\ pc = "in_loop" /\ op = "cycles" /\ cycle_id_ = 2
  /\ n_keyboard_reports_in_cycle_ = 0 /\ evaluated = << >>
  /\ "report_without_queued" \in call_errors
  /\ any_failed /\ ~assertions_passed_

\* C15: the step that ends a tick evaluates every assertion of the queue of
\* cycle assertions exactly once and leaves that queue empty; no other step
\* evaluates an assertion of the queue, and what the end of a tick evaluates
\* are only the assertions then held by the list passed in, the queue and
\* the permanent list, so an assertion the queue has dropped is not
\* evaluated by a later tick.
C15_QueuedCycleOncePerTick ==
  [][/\ TickEndStep =>
          /\ \A a \in Range(queued_cycle_assertions_) :
               Occurrences(a, evaluated') = 1
          /\ queued_cycle_assertions_' = << >>
          /\ Range(evaluated') \subseteq
               Range(internal_list) \cup Range(queued_cycle_assertions_)
                 \cup Range(permanent_cycle_assertions_)
     /\ ~TickEndStep =>
          \A a \in Range(queued_cycle_assertions_) :
            a \notin Range(evaluated')]_vars

\* C15 witness: two assertions were registered and no report was sent; no
\* queue or list holds them any more, so both were queued cycle assertions
\* that the first of two ticks has evaluated and dropped; the second tick
\* has evaluated nothing
C15_Witness ==
  /\ pc = "cycles_loop" /\ cycle_id_ = 2 /\ i = 2
  /\ n_assertions = 2 /\ n_overall_keyboard_reports_ = 0
  /\ internal_list = << >>
  /\ queued_keyboard_report_assertions_ = << >>
  /\ permanent_keyboard_report_assertions_ = << >>
  /\ permanent_cycle_assertions_ = << >>
  /\ queued_cycle_assertions_ = << >>
  /\ evaluated = << >>

\* C16: in every state the aggregate pass flag is true exactly if no eval()
\* so far has returned false (it is true at the start, when nothing has been
\* evaluated), and no step takes it from false back to true.
C16_FlagIsConjunction ==
  /\ [](assertions_passed_ = ~any_failed)
  /\ [][~assertions_passed_ => ~assertions_passed_']_vars

\* C16 witness: the only assertion, a permanent report assertion, failed at
\* the report of the first tick; the second tick is running and the flag is
\* false
C16_Witness ==
  /\ pc = "in_loop" /\ cycle_id_ = 2
  /\ n_overall_keyboard_reports_ = 1 /\ n_keyboard_reports_in_cycle_ = 0
  /\ n_assertions = 1 /\ permanent_keyboard_report_assertions_ = <<1>>
  /\ internal_list = << >>
  /\ any_failed /\ ~assertions_passed_

\* cycleInternal is entered by this step
TickStartStep == pc # "in_loop" /\ pc' = "in_loop"

\* ::loop() hands a report to processKeyboardReport in this step
ReportDelivered == pc = "in_loop" /\ pc' \in {"in_loop", "exited"}

\* C17: the step that starts a tick sets the per-cycle report counter to 0
\* and leaves the overall counter alone; a report adds one to both; no other
\* step changes either.  So the per-cycle counter is the number of reports
\* of the tick under way (or last run), and the overall counter never goes
\* down and is never less than the per-cycle counter.
C17_ReportCounters ==
  [][/\ TickStartStep =>
          /\ n_keyboard_reports_in_cycle_' = 0
          /\ n_overall_keyboard_reports_' = n_overall_keyboard_reports_
     /\ ReportDelivered =>
          /\ n_keyboard_reports_in_cycle_' = n_keyboard_reports_in_cycle_ + 1
          /\ n_overall_keyboard_reports_' = n_overall_keyboard_reports_ + 1
     /\ ~(TickStartStep \/ ReportDelivered) =>
          UNCHANGED <<n_keyboard_reports_in_cycle_,
                      n_overall_keyboard_reports_>>
     /\ n_keyboard_reports_in_cycle_' <= n_overall_keyboard_reports_']_vars

\* C17 witness: two ticks of one cycles call have sent one report each; at
\* the end of the second the per-cycle counter is 1 and the overall one 2
C17_Witness ==
  /\ pc = "cycles_loop" /\ i = 2 /\ cycle_id_ - start_cycle = 2
  /\ n_keyboard_reports_in_cycle_ = 1
  /\ n_overall_keyboard_reports_ = 2

\* C18: the strict-mode error depends on the queue of report assertions as
\* the report finds it: a report that finds the queue non-empty, also one
\* that takes its last assertion, reports no error and does not end the
\* process; a report that finds the queue empty reports the error exactly
\* if strict mode is on.
C18_StrictUsesSizeBeforePop ==
  [][ReportDelivered =>
       /\ queued_keyboard_report_assertions_ # << >> =>
            /\ call_errors' = call_errors
            /\ pc' = "in_loop"
       /\ queued_keyboard_report_assertions_ = << >> =>
            ("report_without_queued" \in call_errors')
              <=> error_if_report_without_queued_assertions_]_vars

\* C18 witness: in strict mode the first report has taken the only queued
\* report assertion; the queue is empty and no error has been reported
C18_Witness ==
  /\ error_if_report_without_queued_assertions_
  /\ pc = "in_loop" /\ op = "cycle"
  /\ n_overall_keyboard_reports_ = 1 /\ n_assertions = 1
  /\ evaluated = <<1>>
  /\ queued_keyboard_report_assertions_ = << >>
  /\ permanent_keyboard_report_assertions_ = << >>
  /\ call_errors = {}

\* the loop of skipTime is left by this step and the call returns
SkipStopStep == pc = "skip_loop" /\ pc' = "returned"

\* C19: with a cycle duration d > 0, no step of a call skipTime(delta_t,
\* stop) with delta_t <= 0 starts a tick or changes the cycle id, the time
\* or a queue; for every delta_t the step that ends the call comes when the
\* elapsed time has reached delta_t, so after the last tick, and evaluates
\* every assertion of stop exactly once; no other step of the call, in
\* particular no end of a tick, evaluates an assertion of stop.
C19_SkipTimeStopAssertions ==
  [][(op' = "skipTime" /\ cycle_duration_ > 0) =>
       /\ delta_t' <= 0 =>
            /\ ~TickStartStep
            /\ UNCHANGED <<cycle_id_, time_, queues>>
       /\ SkipStopStep =>
            /\ InDeltaUnits(time_ - start_time) >= delta_t
            /\ UNCHANGED <<cycle_id_, time_>>
            /\ evaluated' = on_stop_assertion_list'
            /\ \A a \in Range(on_stop_assertion_list') :
                 Occurrences(a, evaluated') = 1
       /\ ~SkipStopStep =>
            \A a \in Range(on_stop_assertion_list') :
              a \notin Range(evaluated')]_vars

\* C19 witness: skipTime(0, stop) with a cycle duration of 1 and a non-empty
\* stop list has returned, after an earlier tick: it ran no tick and
\* evaluated the stop list
C19_Witness ==
  /\ pc = "returned" /\ op = "skipTime"
  /\ cycle_duration_ = 1 /\ delta_t = 0
  /\ cycle_id_ = 1 /\ start_cycle = 1
  /\ time_ = start_time
  /\ on_stop_assertion_list # << >>
  /\ evaluated = on_stop_assertion_list

\* C20: a call of checkStatus(), by the test or by ~Driver, evaluates no
\* assertion, and it comes out true exactly if the queue of report
\* assertions is empty and no eval() has returned false, whatever the queue
\* of cycle assertions holds.
C20_LeftoverCycleAssertionIgnored ==
  (op \in {"checkStatus", "destroy"}) =>
     /\ evaluated = << >>
     /\ (pc = "destroyed" \/ status = "true")
          <=> (queued_keyboard_report_assertions_ = << >> /\ ~any_failed)

\* C20 witness: a cycle assertion was queued after the last tick and is
\* still in its queue; ~Driver has found checkStatus() true and the process
\* has ended normally
C20_Witness ==
  /\ pc = "destroyed" /\ op = "destroy" /\ status = "true"
  /\ cycle_id_ > 0
  /\ queued_cycle_assertions_ # << >>
  /\ queued_keyboard_report_assertions_ = << >>
  /\ ~any_failed

=============================================================================
